---- MODULE Spec2Model ----
(***************************************************************************)
(* Model of the episode crawler (crawler.py, 1997/crawler.py):             *)
(*   - the section extractors over a parsed page,                          *)
(*   - the content assembler get_episode_content,                          *)
(*   - the renderer build_episode_story,                                   *)
(*   - the batch driver main / process_url_batch.                          *)
(*                                                                         *)
(* A text is a sequence of units.  A unit is a one-element string and      *)
(* stands for one character of the program's text, or for one fixed        *)
(* literal of the source that the program never takes apart (a             *)
(* placeholder message, a percent-encoded character of a URL).             *)
(***************************************************************************)
EXTENDS Integers, Sequences, FiniteSets, TLC

\* ------------------------------------------------------------------------
\* Bounds of the model
\* ------------------------------------------------------------------------
MaxSibs == 4        \* longest sibling sequence of a parsed page
MaxLines == 3       \* longest urls.txt whose lines are chosen freely
MaxUrls == 41       \* longest urls.txt (lines follow a repeating pattern)

\* ------------------------------------------------------------------------
\* Optional values: Python's None and a present value
\* ------------------------------------------------------------------------
None == [tag |-> "None"]
Some(v) == [tag |-> "Some", val |-> v]

\* ------------------------------------------------------------------------
\* Units and the literals of the source
\* ------------------------------------------------------------------------
NL == "\n"
SP == " "
Whitespace == {SP, NL}
BULLET == "BULLET"                      \* the bullet character
SUMMARY_LABEL == <<"ZHAI", "YAO">>      \* the two characters of the summary header
EVENTS_PREFIX == <<"ZHU", "YAO", "SHI", "JIAN">>  \* the four characters of the events header
EVENTS_LABEL == EVENTS_PREFIX \o <<"COLON">>      \* the events header with its full-width colon
NO_SUMMARY == <<"No summary found.">>
NO_EVENTS == <<"No main events found.">>
NO_FIRST_PARAGRAPH == <<"No first paragraph found">>
ERROR_PREFIX == <<"Error: ">>
NONE_TEXT == <<"None">>                 \* str(None) inside an f-string
SUMMARY_ID == ".E6.91.98.E8.A6.81"
EVENTS_ID == ".E4.B8.BB.E8.A6.81.E4.BA.8B.E4.BB.B6"

\* ------------------------------------------------------------------------
\* String functions of Python used by the program
\* ------------------------------------------------------------------------
RECURSIVE lstrip(_)
lstrip(s) ==
    IF s = <<>> THEN <<>>
    ELSE IF Head(s) \in Whitespace THEN lstrip(Tail(s)) ELSE s

RECURSIVE rstrip(_)
rstrip(s) ==
    IF s = <<>> THEN <<>>
    ELSE IF s[Len(s)] \in Whitespace THEN rstrip(SubSeq(s, 1, Len(s) - 1)) ELSE s

\* str.strip()
strip(s) == rstrip(lstrip(s))

\* str.startswith(prefix)
startswith(s, prefix) ==
    /\ Len(s) >= Len(prefix)
    /\ SubSeq(s, 1, Len(prefix)) = prefix

\* sep.join(list)
RECURSIVE join(_, _)
join(sep, list) ==
    IF list = <<>> THEN <<>>
    ELSE IF Len(list) = 1 THEN list[1]
    ELSE list[1] \o sep \o join(sep, Tail(list))

\* str.split('\n'): the lines of s, empty lines kept
RECURSIVE split(_, _)
split(s, cur) ==
    IF s = <<>> THEN <<cur>>
    ELSE IF Head(s) = NL THEN <<cur>> \o split(Tail(s), <<>>)
    ELSE split(Tail(s), Append(cur, Head(s)))

split_lines(s) == split(s, <<>>)

\* ------------------------------------------------------------------------
\* OpenCC('s2t').convert: unit "s" stands for a simplified character whose
\* traditional form is "t"; every other unit is the same in both scripts.
\* ------------------------------------------------------------------------
cc_convert(s) == [i \in 1..Len(s) |-> IF s[i] = "s" THEN "t" ELSE s[i]]

\* ------------------------------------------------------------------------
\* Parsed pages.  A page is the sequence of sibling elements of the content
\* container, in document order.
\*   h2  : a heading holding a span with the given id
\*   h3  : a lower-level heading
\*   div : a non-heading block holding a span with the given id
\*   p   : a paragraph with its text
\*   ul  : a list; each direct item has its own text and the texts of the
\*         items of a list nested inside it
\* ------------------------------------------------------------------------
H2(id) == [name |-> "h2", span |-> id]
H3 == [name |-> "h3", span |-> "none"]
Div(id) == [name |-> "div", span |-> id]
P(t) == [name |-> "p", text |-> t]
Li(t, n) == [text |-> t, nested |-> n]
Ul(items) == [name |-> "ul", items |-> items]

T_blank == <<SP>>
T_a == <<SP, "a", SP>>
T_s == <<"s", SP, "b">>

Elements ==
    { H2(SUMMARY_ID), H2(EVENTS_ID),
      Div(SUMMARY_ID), Div(EVENTS_ID), H3,
      P(T_blank), P(T_a), P(T_s),
      Ul(<< Li(T_a, <<>>), Li(T_blank, <<>>), Li(T_s, <<>>) >>),
      Ul(<< Li(<<"a">>, << <<"s", NL>> >>), Li(T_s, <<>>) >>),
      Ul(<< Li(<<NL>>, << T_a >>) >>),
      Ul(<< Li(T_blank, <<>>), Li(<<>>, <<>>) >>) }

RECURSIVE SeqsUpTo(_, _)
SeqsUpTo(S, n) ==
    IF n = 0 THEN { <<>> }
    ELSE LET shorter == SeqsUpTo(S, n - 1)
         IN shorter \cup { Append(q, e) : q \in {r \in shorter : Len(r) = n - 1}, e \in S }

Pages == SeqsUpTo(Elements, MaxSibs)

\* Document order: the first of a set of positions, 0 when there is none
first_index(S) == IF S = {} THEN 0 ELSE CHOOSE i \in S : \A j \in S : i <= j

\* soup.find('span', id=...): position of the element holding the first such span
find_span(soup, id) ==
    first_index({i \in 1..Len(soup) : soup[i].name \in {"h2", "div"} /\ soup[i].span = id})

\* Mutant: the enclosing block is taken for the heading whatever its kind
find_parent_h2_AnyBlock(soup, k) == k

\* span.find_parent('h2'): the element itself when it is a heading, else nothing
find_parent_h2(soup, k) == IF k # 0 /\ soup[k].name = "h2" THEN k ELSE 0

\* ------------------------------------------------------------------------
\* get_first_paragraph_text
\* ------------------------------------------------------------------------
get_first_paragraph_text(soup) ==
    LET first_p == first_index({i \in 1..Len(soup) : soup[i].name = "p"})
    IN IF first_p # 0 THEN strip(soup[first_p].text) ELSE NO_FIRST_PARAGRAPH

\* ------------------------------------------------------------------------
\* get_summary_section
\* ------------------------------------------------------------------------
\* Mutant: the walk does not stop at the next h2
RECURSIVE summary_walk_NoStop(_, _, _)
summary_walk_NoStop(soup, current, summary_list) ==
    IF current > Len(soup) THEN summary_list
    ELSE IF soup[current].name = "p" /\ strip(soup[current].text) # <<>>
         THEN summary_walk_NoStop(soup, current + 1,
                                  Append(summary_list, strip(soup[current].text)))
         ELSE summary_walk_NoStop(soup, current + 1, summary_list)

\* the while loop: current walks the siblings until an h2 or the end
RECURSIVE summary_walk(_, _, _)
summary_walk(soup, current, summary_list) ==
    IF current > Len(soup) \/ soup[current].name = "h2" THEN summary_list
    ELSE IF soup[current].name = "p" /\ strip(soup[current].text) # <<>>
         THEN summary_walk(soup, current + 1, Append(summary_list, strip(soup[current].text)))
         ELSE summary_walk(soup, current + 1, summary_list)

get_summary_section(soup) ==
    LET span == find_span(soup, SUMMARY_ID)
        summary_h2 == find_parent_h2(soup, span)
    IN IF span = 0 THEN None
       ELSE IF summary_h2 = 0 THEN None
       ELSE LET summary_list == summary_walk(soup, summary_h2 + 1, <<>>)
            IN IF summary_list # <<>> THEN Some(join(<<NL>>, summary_list)) ELSE None

\* ------------------------------------------------------------------------
\* get_main_events
\* ------------------------------------------------------------------------
\* li.get_text(strip=True): every text node of the item trimmed, the empty
\* ones dropped, the rest concatenated; the text nodes of a nested list belong
\* to the item
RECURSIVE concat_stripped(_)
concat_stripped(nodes) ==
    IF nodes = <<>> THEN <<>>
    ELSE strip(Head(nodes)) \o concat_stripped(Tail(nodes))

get_text_strip(li) == concat_stripped(<<li.text>> \o li.nested)

\* events_h2.find_next_sibling('ul'): the first list among ALL later siblings
find_next_sibling_ul(soup, h2) ==
    first_index({i \in (h2 + 1)..Len(soup) : soup[i].name = "ul"})

\* the for loop over ul.find_all('li', recursive=False)
RECURSIVE collect_events(_, _)
collect_events(items, events) ==
    IF items = <<>> THEN events
    ELSE LET event_text == get_text_strip(Head(items))
         IN collect_events(Tail(items),
                           IF event_text # <<>> THEN Append(events, event_text) ELSE events)

\* Mutant: the list of events is returned even when it is empty
get_main_events_KeepEmpty(soup) ==
    LET span == find_span(soup, EVENTS_ID)
        events_h2 == find_parent_h2(soup, span)
    IN IF span = 0 THEN None
       ELSE IF events_h2 = 0 THEN None
       ELSE LET ul == find_next_sibling_ul(soup, events_h2)
            IN IF ul = 0 THEN None
               ELSE Some(collect_events(soup[ul].items, <<>>))

get_main_events(soup) ==
    LET span == find_span(soup, EVENTS_ID)
        events_h2 == find_parent_h2(soup, span)
    IN IF span = 0 THEN None
       ELSE IF events_h2 = 0 THEN None
       ELSE LET ul == find_next_sibling_ul(soup, events_h2)
            IN IF ul = 0 THEN None
               ELSE LET events == collect_events(soup[ul].items, <<>>)
                    IN IF events # <<>> THEN Some(events) ELSE None

\* ------------------------------------------------------------------------
\* URLs.  A percent-encoded character of a URL is one unit; unquote decodes
\* the two that matter to the episode pattern.
\* ------------------------------------------------------------------------
Digits == {"1", "2"}
URL_EP12 == <<"https://wiki/", "%E7%AC%AC", "1", "2", "%E9%9B%86">>
URL_PLAIN == <<"https://wiki/", "s", "%E9%9B%86">>
URL_DOWN == <<"https://down/", "%E7%AC%AC", "2", "%E9%9B%86">>
URLS == {URL_EP12, URL_PLAIN, URL_DOWN}

\* urllib.parse.unquote
unquote(url) ==
    [i \in 1..Len(url) |->
        IF url[i] = "%E7%AC%AC" THEN "DI"
        ELSE IF url[i] = "%E9%9B%86" THEN "JI"
        ELSE url[i]]

\* ------------------------------------------------------------------------
\* parse_episode_text: re.search of DI digit+ JI in the decoded URL
\* ------------------------------------------------------------------------
parse_episode_text(url) ==
    LET decoded_url == unquote(url)
        EndOf(i) == first_index({j \in (i + 1)..Len(decoded_url) : decoded_url[j] \notin Digits})
        Matches(i) == /\ decoded_url[i] = "DI"
                      /\ EndOf(i) > i + 1
                      /\ decoded_url[EndOf(i)] = "JI"
        match == first_index({i \in 1..Len(decoded_url) : Matches(i)})
    IN IF match # 0 THEN Some(SubSeq(decoded_url, match, EndOf(match))) ELSE None

\* ------------------------------------------------------------------------
\* get_episode_content.  A response is what requests.get and BeautifulSoup
\* give for a URL: a parsed page, or an exception with its message.
\* ------------------------------------------------------------------------
Page(soup) == [ok |-> TRUE, soup |-> soup]
Raises(reason) == [ok |-> FALSE, reason |-> reason]
REASON_DOWN == <<"connection refused">>

\* an optional text inside an f-string
format(opt) == IF opt = None THEN NONE_TEXT ELSE opt.val

\* Mutant: a missing summary is formatted as it is
summary_or_placeholder_NoSubstitute(summary_text) ==
    IF summary_text # None THEN summary_text.val ELSE NONE_TEXT

\* summary_text if summary_text else "No summary found."
summary_or_placeholder(summary_text) ==
    IF summary_text # None /\ summary_text.val # <<>> THEN summary_text.val ELSE NO_SUMMARY

\* "\n* " + "\n* ".join(main_events) if main_events else "No main events found."
events_or_placeholder(main_events) ==
    IF main_events # None /\ main_events.val # <<>>
    THEN <<NL, BULLET, SP>> \o join(<<NL, BULLET, SP>>, main_events.val)
    ELSE NO_EVENTS

\* the f-string of the try block
assemble(episode_text, first_text, summary_text, events_text) ==
    format(episode_text) \o <<NL>> \o first_text \o <<NL>> \o SUMMARY_LABEL \o <<NL>>
        \o summary_text \o <<NL>> \o EVENTS_LABEL \o <<NL>> \o events_text

\* The locals of one call and its return value; variant is "main" for
\* crawler.py (the block is converted) and "1997" for 1997/crawler.py.
get_episode_content(variant, url, response) ==
    IF response.ok
    THEN LET soup == response.soup
             episode_text == parse_episode_text(url)
             first_text == get_first_paragraph_text(soup)
             summary == get_summary_section(soup)
             summary_text == summary_or_placeholder(summary)
             main_events == get_main_events(soup)
             events_text == events_or_placeholder(main_events)
             content == assemble(episode_text, first_text, summary_text, events_text)
         IN [variant |-> variant, url |-> url, raised |-> FALSE,
             episode_text |-> episode_text, first_text |-> first_text,
             summary |-> summary, main_events |-> main_events,
             result |-> IF variant = "main" THEN cc_convert(content) ELSE content]
    ELSE [variant |-> variant, url |-> url, raised |-> TRUE,
          episode_text |-> None, first_text |-> <<>>,
          summary |-> None, main_events |-> None,
          result |-> ERROR_PREFIX \o response.reason]

\* ------------------------------------------------------------------------
\* build_episode_story
\* ------------------------------------------------------------------------
Paragraph(text, style) == [kind |-> "Paragraph", text |-> text, style |-> style, height |-> 0]
Spacer(height) == [kind |-> "Spacer", text |-> <<>>, style |-> "none", height |-> height]

\* the grouping loop; current_section names the list that receives lines
RECURSIVE group_sections(_, _)
group_sections(sections, g) ==
    IF sections = <<>> THEN g
    ELSE LET section == Head(sections)
             rest == Tail(sections)
         IN IF strip(section) = <<>> THEN group_sections(rest, g)
            ELSE IF g.title = None
                 THEN group_sections(rest, [g EXCEPT !.title = Some(section)])
            ELSE IF startswith(section, SUMMARY_LABEL)
                 THEN group_sections(rest, [g EXCEPT !.current_section = "summary"])
            ELSE IF startswith(section, EVENTS_PREFIX)
                 THEN group_sections(rest, [g EXCEPT !.current_section = "events"])
            ELSE group_sections(rest,
                    [g EXCEPT ![g.current_section] = Append(g[g.current_section], section)])

paragraphs(lines, style) == [i \in 1..Len(lines) |-> Paragraph(lines[i], style)]

event_paragraphs(lines) ==
    [i \in 1..Len(lines) |->
        IF startswith(lines[i], <<BULLET>>)
        THEN Paragraph(<<SP, SP, SP, SP>> \o lines[i], "normal")
        ELSE Paragraph(lines[i], "normal")]

build_episode_story(text) ==
    LET g == group_sections(split_lines(text),
                            [title |-> None, intro |-> <<>>, summary |-> <<>>,
                             events |-> <<>>, current_section |-> "intro"])
    IN (IF g.title # None /\ g.title.val # <<>>
        THEN <<Paragraph(g.title.val, "title"), Spacer(12)>> ELSE <<>>)
       \o paragraphs(g.intro, "normal") \o <<Spacer(12)>>
       \o (IF g.summary # <<>>
           THEN <<Paragraph(SUMMARY_LABEL, "summary"), Spacer(6)>>
                \o paragraphs(g.summary, "normal") \o <<Spacer(12)>>
           ELSE <<>>)
       \o (IF g.events # <<>>
           THEN <<Paragraph(EVENTS_LABEL, "summary"), Spacer(6)>> \o event_paragraphs(g.events)
           ELSE <<>>)
       \o <<Spacer(30)>>

\* the stories of a list of blocks, one after the other
RECURSIVE RenderAllMutant(_)
RenderAllMutant(blocks) ==
    IF blocks = <<>> THEN <<>>
    ELSE build_episode_story(Head(blocks)) \o RenderAllMutant(Tail(blocks))

\* ------------------------------------------------------------------------
\* The environment of a run
\* ------------------------------------------------------------------------
BATCH_SIZE == 20

\* the pages served to the driver
PAGE_FULL ==
    << P(T_s), H2(SUMMARY_ID), P(T_a), P(T_s), H2(EVENTS_ID),
       Ul(<< Li(T_a, <<>>), Li(T_blank, <<>>), Li(T_s, <<>>) >>) >>
PAGE_BARE == << H3 >>

DriverWeb ==
    [u \in URLS |->
        IF u = URL_EP12 THEN Page(PAGE_FULL)
        ELSE IF u = URL_PLAIN THEN Page(PAGE_BARE)
        ELSE Raises(REASON_DOWN)]

\* a line of urls.txt
Line(url) == url \o <<NL>>
BLANK_LINE == <<SP, NL>>
Lines == {Line(u) : u \in URLS} \cup {BLANK_LINE}

\* a long urls.txt: n lines cycling through the three URLs
PatternFile(n) ==
    [i \in 1..n |->
        IF i % 3 = 1 THEN Line(URL_EP12)
        ELSE IF i % 3 = 2 THEN Line(URL_DOWN)
        ELSE Line(URL_PLAIN)]

UrlFiles == SeqsUpTo(Lines, MaxLines) \cup {PatternFile(n) : n \in 0..MaxUrls}

\* [line.strip() for line in f if line.strip()]
RECURSIVE read_urls(_)
read_urls(lines) ==
    IF lines = <<>> THEN <<>>
    ELSE IF strip(Head(lines)) # <<>>
         THEN <<strip(Head(lines))>> \o read_urls(Tail(lines))
         ELSE read_urls(Tail(lines))

Min(a, b) == IF a <= b THEN a ELSE b

Msg(msg, n, m) == [msg |-> msg, n |-> n, m |-> m]

\* ------------------------------------------------------------------------
\* State
\* ------------------------------------------------------------------------
VARIABLES
    pc,             \* position of the run
    season_dir,     \* os.path.exists(season_dir)
    urls_file,      \* None when urls.txt is absent, else its lines
    pdf_dir,        \* "absent", "present" (before the run) or "created" (by the run)
    web,            \* what each URL answers
    urls,           \* main: urls
    batch_start,    \* main: batch_start
    batch_urls,     \* main: batch_urls
    batches,        \* the successive values of batch_urls
    idx,            \* process_url_batch: URLs of the batch already processed
    story,          \* process_url_batch: story
    docs,           \* the documents created so far, with their state
    fetched,        \* the URLs requested so far, in request order
    records,        \* the values returned by get_episode_content, in call order
    out,            \* what the run printed
    call            \* the locals of the latest get_episode_content call

vars == << pc, season_dir, urls_file, pdf_dir, web, urls, batch_start, batch_urls,
           batches, idx, story, docs, fetched, records, out, call >>

env == << season_dir, urls_file, web >>
driver == << urls, batch_start, batch_urls, batches, idx, story, docs, pdf_dir >>

InitRun ==
    /\ urls = <<>>
    /\ batch_start = 0
    /\ batch_urls = <<>>
    /\ batches = <<>>
    /\ idx = 0
    /\ story = <<>>
    /\ docs = <<>>
    /\ fetched = <<>>
    /\ records = <<>>
    /\ out = <<>>
    /\ call = None

\* The driver is started in a season that may lack its directory or urls.txt
Init ==
    /\ pc = "start"
    /\ season_dir \in BOOLEAN
    /\ urls_file \in IF season_dir THEN {None} \cup {Some(f) : f \in UrlFiles} ELSE {None}
    /\ pdf_dir \in IF season_dir THEN {"absent", "present"} ELSE {"absent"}
    /\ web = DriverWeb
    /\ InitRun

\* ------------------------------------------------------------------------
\* main
\* ------------------------------------------------------------------------
\* if not os.path.exists(season_dir): print, return
MissingSeasonDir ==
    /\ pc = "start"
    /\ ~season_dir
    /\ out' = Append(out, Msg("Error: Season directory not found", 0, 0))
    /\ pc' = "done"
    /\ UNCHANGED << env, driver, fetched, records, call >>

\* Mutant: the pdf directory is made before urls.txt is looked for
MissingUrlsFile_AfterMakedirs ==
    /\ pc = "start"
    /\ season_dir
    /\ urls_file = None
    /\ pdf_dir' = IF pdf_dir = "absent" THEN "created" ELSE pdf_dir
    /\ out' = Append(out, Msg("Error: URLs file not found", 0, 0))
    /\ pc' = "done"
    /\ UNCHANGED << env, urls, batch_start, batch_urls, batches, idx, story, docs,
                    fetched, records, call >>

\* if not os.path.exists(urls_file): print, return
MissingUrlsFile ==
    /\ pc = "start"
    /\ season_dir
    /\ urls_file = None
    /\ out' = Append(out, Msg("Error: URLs file not found", 0, 0))
    /\ pc' = "done"
    /\ UNCHANGED << env, driver, fetched, records, call >>

\* os.makedirs(pdf_dir, exist_ok=True); read urls.txt; total_urls = len(urls)
ReadUrls ==
    /\ pc = "start"
    /\ season_dir
    /\ urls_file # None
    /\ pdf_dir' = IF pdf_dir = "absent" THEN "created" ELSE pdf_dir
    /\ urls' = read_urls(urls_file.val)
    /\ out' = out \o << Msg("Reading URLs from", 0, 0),
                        Msg("Found URLs to process", Len(urls'), 0) >>
    /\ batch_start' = 0
    /\ pc' = "loop"
    /\ UNCHANGED << env, batch_urls, batches, idx, story, docs, fetched, records, call >>

\* load_chinese_font: the host has one of the fonts or none
FontMsg(font_name) ==
    IF font_name = "Chinese" THEN Msg("Successfully loaded Chinese font", 0, 0)
    ELSE Msg("Warning: No Chinese font loaded", 0, 0)

\* create_pdf_document: a new document object, nothing written yet
create_pdf_document(part, font_name) ==
    [part |-> part, font_name |-> font_name, state |-> "open", story |-> <<>>]

\* doc.build(story): the document is written with the story
build(doc, st) == [doc EXCEPT !.state = "built", !.story = st]

\* Mutant: the slice ends one URL early
OpenBatch_ShortSlice ==
    /\ pc = "loop"
    /\ batch_start < Len(urls)
    /\ LET batch_end == Min(batch_start + BATCH_SIZE, Len(urls))
       IN /\ batch_urls' = SubSeq(urls, batch_start + 1, batch_end - 1)
          /\ batches' = Append(batches, batch_urls')
    /\ \E font_name \in {"Chinese", "Helvetica"} :
          /\ docs' = Append(docs, create_pdf_document((batch_start \div BATCH_SIZE) + 1, font_name))
          /\ out' = Append(out, FontMsg(font_name))
    /\ story' = <<>>
    /\ idx' = 0
    /\ pc' = "batch"
    /\ UNCHANGED << env, pdf_dir, urls, batch_start, fetched, records, call >>

\* loop head, an iteration of range(0, total_urls, BATCH_SIZE) up to the
\* call of process_url_batch
OpenBatch ==
    /\ pc = "loop"
    /\ batch_start < Len(urls)
    /\ LET batch_end == Min(batch_start + BATCH_SIZE, Len(urls))
       IN /\ batch_urls' = SubSeq(urls, batch_start + 1, batch_end)
          /\ batches' = Append(batches, batch_urls')
    /\ \E font_name \in {"Chinese", "Helvetica"} :
          /\ docs' = Append(docs, create_pdf_document((batch_start \div BATCH_SIZE) + 1, font_name))
          /\ out' = Append(out, FontMsg(font_name))
    /\ story' = <<>>
    /\ idx' = 0
    /\ pc' = "batch"
    /\ UNCHANGED << env, pdf_dir, urls, batch_start, fetched, records, call >>

\* Mutant: the exception of a failing URL is not caught inside the call and
\* ends the loop of the batch
ProcessUrl_AbortOnError ==
    /\ pc = "batch"
    /\ idx < Len(batch_urls)
    /\ LET url == batch_urls[idx + 1]
           i == batch_start + 1 + idx
           c == get_episode_content("main", url, web[url])
       IN /\ fetched' = Append(fetched, url)
          /\ call' = c
          /\ records' = IF c.raised THEN records ELSE Append(records, c.result)
          /\ out' = out \o << Msg("Processing URL", i, Len(urls)) >>
          /\ story' = IF c.raised THEN story ELSE story \o build_episode_story(c.result)
          /\ idx' = IF c.raised THEN Len(batch_urls) ELSE idx + 1
    /\ UNCHANGED << pc, env, pdf_dir, urls, batch_start, batch_urls, batches, docs >>

\* process_url_batch: one iteration of the for loop
ProcessUrl ==
    /\ pc = "batch"
    /\ idx < Len(batch_urls)
    /\ LET url == batch_urls[idx + 1]
           i == batch_start + 1 + idx
           c == get_episode_content("main", url, web[url])
       IN /\ fetched' = Append(fetched, url)
          /\ call' = c
          /\ records' = Append(records, c.result)
          /\ out' = out \o << Msg("Processing URL", i, Len(urls)) >>
                        \o (IF c.raised THEN << Msg("Error fetching", i, 0) >> ELSE <<>>)
          /\ story' = story \o build_episode_story(c.result)
    /\ idx' = idx + 1
    /\ UNCHANGED << pc, env, pdf_dir, urls, batch_start, batch_urls, batches, docs >>

\* Mutant: the story is built but the list is the one of the whole run, so a
\* document also gets the records of the batches before it
BuildPdf_WholeRun ==
    /\ pc = "batch"
    /\ idx = Len(batch_urls)
    /\ docs' = [docs EXCEPT ![Len(docs)] = build(docs[Len(docs)], RenderAllMutant(records))]
    /\ out' = out \o << Msg("Building PDF for episodes", batch_start + 1,
                            batch_start + 1 + Len(batch_urls) - 1),
                        Msg("Completed batch", (batch_start \div BATCH_SIZE) + 1, 0) >>
    /\ batch_start' = batch_start + BATCH_SIZE
    /\ pc' = "loop"
    /\ UNCHANGED << env, pdf_dir, urls, batch_urls, batches, idx, story, fetched, records, call >>

\* process_url_batch: after the loop, doc.build(story); back in main the
\* batch is reported and the loop variable advances
BuildPdf ==
    /\ pc = "batch"
    /\ idx = Len(batch_urls)
    /\ docs' = [docs EXCEPT ![Len(docs)] = build(docs[Len(docs)], story)]
    /\ out' = out \o << Msg("Building PDF for episodes", batch_start + 1,
                            batch_start + 1 + Len(batch_urls) - 1),
                        Msg("Completed batch", (batch_start \div BATCH_SIZE) + 1, 0) >>
    /\ batch_start' = batch_start + BATCH_SIZE
    /\ pc' = "loop"
    /\ UNCHANGED << env, pdf_dir, urls, batch_urls, batches, idx, story, fetched, records, call >>

\* the range is exhausted
AllCompleted ==
    /\ pc = "loop"
    /\ batch_start >= Len(urls)
    /\ out' = Append(out, Msg("All batches completed!", 0, 0))
    /\ pc' = "done"
    /\ UNCHANGED << env, driver, fetched, records, call >>

Next ==
    \/ MissingSeasonDir
    \/ MissingUrlsFile
    \/ ReadUrls
    \/ OpenBatch
    \/ ProcessUrl
    \/ BuildPdf
    \/ AllCompleted

Spec == Init /\ [][Next]_vars

\* ------------------------------------------------------------------------
\* get_episode_content on its own, over every page of the bounded set
\* ------------------------------------------------------------------------
InitExtract ==
    /\ pc = "page"
    /\ season_dir = TRUE
    /\ urls_file = None
    /\ pdf_dir = "absent"
    /\ \E soup \in Pages :
          web = [u \in URLS |-> IF u = URL_DOWN THEN Raises(REASON_DOWN) ELSE Page(soup)]
    /\ InitRun

\* crawler.py
GetEpisodeContent ==
    /\ pc = "page"
    /\ \E url \in URLS :
          /\ call' = get_episode_content("main", url, web[url])
          /\ fetched' = Append(fetched, url)
          /\ records' = Append(records, call'.result)
          /\ out' = IF call'.raised THEN Append(out, Msg("Error fetching", 1, 0)) ELSE out
    /\ pc' = "returned"
    /\ UNCHANGED << env, driver >>

\* 1997/crawler.py
GetEpisodeContent1997 ==
    /\ pc = "page"
    /\ \E url \in URLS :
          /\ call' = get_episode_content("1997", url, web[url])
          /\ fetched' = Append(fetched, url)
          /\ records' = Append(records, call'.result)
          /\ out' = IF call'.raised THEN Append(out, Msg("Error fetching", 1, 0)) ELSE out
    /\ pc' = "returned"
    /\ UNCHANGED << env, driver >>

NextExtract == GetEpisodeContent \/ GetEpisodeContent1997

SpecExtract == InitExtract /\ [][NextExtract]_vars

\* ------------------------------------------------------------------------
\* get_episode_content followed by build_episode_story, over pages whose
\* texts may begin a line with the characters of a section header
\* ------------------------------------------------------------------------
T_like_summary == SUMMARY_LABEL \o <<"a">>                  \* a paragraph opening with the summary header's characters
T_like_events == <<"b", NL>> \o EVENTS_PREFIX \o <<"a">>    \* a paragraph whose second line opens with the events header's characters
T_item_two_lines == <<"a", NL>> \o SUMMARY_LABEL \o <<"b">> \* an item whose second line opens with the summary header's characters

RenderElements ==
    { H2(SUMMARY_ID), H2(EVENTS_ID),
      P(T_a), P(T_s), P(T_like_summary), P(T_like_events),
      Ul(<< Li(T_a, <<>>), Li(T_s, <<>>) >>),
      Ul(<< Li(T_item_two_lines, <<>>), Li(T_s, <<>>) >>) }

RenderPages == SeqsUpTo(RenderElements, MaxSibs)

InitRender ==
    /\ pc = "page"
    /\ season_dir = TRUE
    /\ urls_file = None
    /\ pdf_dir = "absent"
    /\ \E soup \in RenderPages :
          web = [u \in URLS |-> IF u = URL_DOWN THEN Raises(REASON_DOWN) ELSE Page(soup)]
    /\ InitRun

\* process_url_batch: story.extend(build_episode_story(content, styles))
BuildEpisodeStory ==
    /\ pc = "returned"
    /\ story' = story \o build_episode_story(call.result)
    /\ pc' = "rendered"
    /\ UNCHANGED << env, pdf_dir, urls, batch_start, batch_urls, batches, idx, docs,
                    fetched, records, out, call >>

NextRender == GetEpisodeContent \/ BuildEpisodeStory

SpecRender == InitRender /\ [][NextRender]_vars

\* ========================================================================
\* Properties
\* ========================================================================
RECURSIVE Flatten(_)
Flatten(seqs) == IF seqs = <<>> THEN <<>> ELSE Head(seqs) \o Flatten(Tail(seqs))

IsPrefix(a, b) == Len(a) <= Len(b) /\ a = SubSeq(b, 1, Len(a))

\* the run got past its input checks
InputPresent == season_dir /\ urls_file # None
Completed == pc = "done" /\ InputPresent

\* the lines of a record that are a section header
HeaderLines(block) ==
    {i \in 1..Len(split_lines(block)) :
        \/ split_lines(block)[i] = SUMMARY_LABEL
        \/ split_lines(block)[i] = EVENTS_LABEL}

\* ------------------------------------------------------------------------
\* C1: the driver produces one record per URL, in URL-list order; the record
\* of a URL whose fetch raises is "Error: " followed by the reason and has no
\* section of its own, the record of any other URL is its structured block,
\* whatever happened to the URLs before it; when the run completes there are
\* as many records as URLs.
\* ------------------------------------------------------------------------
C1_OneRecordPerUrl ==
    InputPresent =>
        /\ Len(records) <= Len(urls)
        /\ Completed => Len(records) = Len(urls)
        /\ \A i \in 1..Len(records) :
              LET response == web[urls[i]]
              IN IF response.ok
                 THEN /\ records[i] = get_episode_content("main", urls[i], response).result
                      /\ ~startswith(records[i], ERROR_PREFIX)
                      /\ Cardinality(HeaderLines(records[i])) = 2
                 ELSE /\ records[i] = ERROR_PREFIX \o response.reason
                      /\ HeaderLines(records[i]) = {}

C1_Witness ==
    /\ Completed
    /\ Len(urls) = 3
    /\ web[urls[1]].ok /\ ~web[urls[2]].ok /\ web[urls[3]].ok
    /\ Len(records) = 3
    /\ startswith(records[2], ERROR_PREFIX)
    /\ ~startswith(records[3], ERROR_PREFIX)

\* ------------------------------------------------------------------------
\* C2: the batches, concatenated in batch order, are a prefix of the URL list
\* and the whole list once the run completes; every batch is non-empty and
\* every batch but the last has exactly BATCH_SIZE URLs.
\* ------------------------------------------------------------------------
C2_BatchPartition ==
    /\ IsPrefix(Flatten(batches), urls)
    /\ Completed => Flatten(batches) = urls
    /\ \A k \in 1..Len(batches) :
          /\ Len(batches[k]) >= 1
          /\ Len(batches[k]) <= BATCH_SIZE
          /\ (k < Len(batches) \/ (pc = "loop" /\ batch_start < Len(urls)))
                => Len(batches[k]) = BATCH_SIZE

C2_Witness ==
    /\ Completed
    /\ Len(urls) = 2 * BATCH_SIZE + 1
    /\ Len(batches) = 3
    /\ Len(batches[3]) = 1

\* ------------------------------------------------------------------------
\* The page of the latest call, described without the extractors
\* ------------------------------------------------------------------------
\* a call has returned the block of a page that was fetched and parsed
Returned == call # None /\ ~call.raised

CalledPage == web[call.url].soup

\* the positions of the elements holding a span with the id
AnchorsOf(soup, id) ==
    {i \in 1..Len(soup) : soup[i].name \in {"h2", "div"} /\ soup[i].span = id}

\* the heading of the section: the element of the first anchor when it is a
\* heading, 0 when the page has no anchor or the anchor is outside a heading
HeadingOf(soup, id) ==
    IF AnchorsOf(soup, id) = {} THEN 0
    ELSE LET a == CHOOSE i \in AnchorsOf(soup, id) : \A j \in AnchorsOf(soup, id) : i <= j
         IN IF soup[a].name = "h2" THEN a ELSE 0

\* the positions after heading h and before the next heading of its level
SectionOf(soup, h) ==
    {i \in (h + 1)..Len(soup) : \A j \in (h + 1)..i : soup[j].name # "h2"}

IsBlank(t) == \A i \in 1..Len(t) : t[i] \in Whitespace

\* ------------------------------------------------------------------------
\* C3: get_main_events returns "not found" whenever no list lies among the
\* siblings after the events heading and before the next heading.
\* (The code takes the first list among all later siblings: violated.)
\* ------------------------------------------------------------------------
C3_NoListInSection ==
    Returned =>
        LET soup == CalledPage
            h == HeadingOf(soup, EVENTS_ID)
        IN (h # 0 /\ \A i \in SectionOf(soup, h) : soup[i].name # "ul")
              => call.main_events = None

\* ------------------------------------------------------------------------
\* C4: when the events heading is immediately followed by a list of N direct
\* items, get_main_events returns N strings in document order, the i-th being
\* the trimmed text of the i-th direct item without the text of its nested
\* list.  Stated for lists whose direct items all have text of their own, so
\* that the documented discarding of empty items plays no part.
\* (The code returns the text of the nested items inside the item: violated.)
\* ------------------------------------------------------------------------
C4_DirectItemTexts ==
    Returned =>
        LET soup == CalledPage
            h == HeadingOf(soup, EVENTS_ID)
        IN (/\ h # 0
            /\ h < Len(soup)
            /\ soup[h + 1].name = "ul"
            /\ \A k \in 1..Len(soup[h + 1].items) : ~IsBlank(soup[h + 1].items[k].text))
              => LET items == soup[h + 1].items
                 IN call.main_events = Some([k \in 1..Len(items) |-> strip(items[k].text)])

\* ------------------------------------------------------------------------
\* C5: when the summary heading exists and its section has a paragraph that
\* is not blank, get_summary_section returns the trimmed texts of the
\* paragraphs of the section (after the heading, before the next h2 or the
\* end), in document order, the blank ones left out, joined by newlines;
\* paragraphs at or after the next h2 and other elements contribute nothing.
\* ------------------------------------------------------------------------
C5_SummaryParagraphs ==
    Returned =>
        LET soup == CalledPage
            h == HeadingOf(soup, SUMMARY_ID)
            section == SectionOf(soup, h)
            last == h + Cardinality(section)
            Counts(e) == e.name = "p" /\ ~IsBlank(e.text)
            kept == SelectSeq(SubSeq(soup, h + 1, last), Counts)
            texts == [k \in 1..Len(kept) |-> strip(kept[k].text)]
        IN (h # 0 /\ \E i \in section : Counts(soup[i]))
              => /\ call.summary # None
                 /\ split_lines(call.summary.val) = texts

\* a summary was found on a page that also has a paragraph after the next
\* heading
C5_Witness ==
    /\ Returned
    /\ call.summary # None
    /\ LET soup == CalledPage
           h == HeadingOf(soup, SUMMARY_ID)
       IN /\ h # 0
          /\ \E i \in 1..Len(soup) :
                /\ i > h
                /\ i \notin SectionOf(soup, h)
                /\ soup[i].name = "p"
                /\ ~IsBlank(soup[i].text)

\* ------------------------------------------------------------------------
\* C6: on a page without the anchor, or whose anchor is not inside a heading,
\* get_summary_section and get_main_events both return "not found" and the
\* call does not raise.
\* ------------------------------------------------------------------------
C6_MissingAnchor ==
    (call # None /\ web[call.url].ok) =>
        LET soup == CalledPage
            NoHeading(id) ==
                \/ AnchorsOf(soup, id) = {}
                \/ \E a \in AnchorsOf(soup, id) :
                      /\ \A j \in AnchorsOf(soup, id) : a <= j
                      /\ soup[a].name # "h2"
        IN /\ ~call.raised
           /\ NoHeading(SUMMARY_ID) => call.summary = None
           /\ NoHeading(EVENTS_ID) => call.main_events = None

\* both anchors are present outside a heading, followed by content that a
\* heading would have selected
C6_Witness ==
    /\ Returned
    /\ LET soup == CalledPage
       IN /\ \E a \in AnchorsOf(soup, SUMMARY_ID) :
                soup[a].name = "div" /\ a < Len(soup) /\ soup[a + 1] = P(T_a)
          /\ \E a \in AnchorsOf(soup, EVENTS_ID) :
                soup[a].name = "div" /\ a < Len(soup) /\ soup[a + 1].name = "ul"
    /\ call.summary = None
    /\ call.main_events = None

\* ------------------------------------------------------------------------
\* C7: a section without extractable content is "not found": the summary is
\* "not found" when the section of the summary heading has no paragraph or
\* only blank ones; the events are "not found" when the list found after the
\* events heading has only items whose text (all of it) is blank; and neither
\* extractor returns an empty string, an empty list or an empty item.
\* ------------------------------------------------------------------------
C7_EmptyIsNotFound ==
    Returned =>
        LET soup == CalledPage
            hs == HeadingOf(soup, SUMMARY_ID)
            he == HeadingOf(soup, EVENTS_ID)
            lists == {i \in (he + 1)..Len(soup) : soup[i].name = "ul"}
            BlankItem(li) == IsBlank(li.text) /\ \A n \in 1..Len(li.nested) : IsBlank(li.nested[n])
        IN /\ (hs # 0 /\ \A i \in SectionOf(soup, hs) :
                              soup[i].name = "p" => IsBlank(soup[i].text))
                 => call.summary = None
           /\ (he # 0 /\ \E u \in lists :
                             /\ \A v \in lists : u <= v
                             /\ \A k \in 1..Len(soup[u].items) : BlankItem(soup[u].items[k]))
                 => call.main_events = None
           /\ call.summary # Some(<<>>)
           /\ call.main_events # Some(<<>>)
           /\ call.main_events # None
                 => \A k \in 1..Len(call.main_events.val) : call.main_events.val[k] # <<>>

\* a summary section with only a blank paragraph and an events list with only
\* blank items
C7_Witness ==
    /\ Returned
    /\ LET soup == CalledPage
           hs == HeadingOf(soup, SUMMARY_ID)
           he == HeadingOf(soup, EVENTS_ID)
       IN /\ hs # 0 /\ he # 0
          /\ \E i \in SectionOf(soup, hs) : soup[i] = P(T_blank)
          /\ he < Len(soup)
          /\ soup[he + 1] = Ul(<< Li(T_blank, <<>>), Li(<<>>, <<>>) >>)
    /\ call.summary = None
    /\ call.main_events = None

\* ------------------------------------------------------------------------
\* C8: when the season directory or urls.txt is absent, the run prints one
\* error and ends; nothing is fetched, the pdf directory is not created and no
\* document is created or written.
\* ------------------------------------------------------------------------
C8_MissingInput ==
    ~InputPresent =>
        /\ pc \in {"start", "done"}
        /\ fetched = <<>>
        /\ records = <<>>
        /\ pdf_dir # "created"
        /\ docs = <<>>
        /\ pc = "start" => out = <<>>
        /\ pc = "done" =>
              out = << IF season_dir THEN Msg("Error: URLs file not found", 0, 0)
                       ELSE Msg("Error: Season directory not found", 0, 0) >>

\* the directory is there, urls.txt is not, and the run has ended
C8_Witness ==
    /\ season_dir
    /\ urls_file = None
    /\ pc = "done"
    /\ pdf_dir = "absent"
    /\ Len(out) = 1

\* ------------------------------------------------------------------------
\* C9: the block of a page that was fetched is, in this order, the label
\* line, the lead paragraph, the summary header, the summary (its paragraphs
\* joined by newlines) or "No summary found." exactly when the summary
\* extractor returned "not found", the events header, and the events (each
\* item on a line of its own after a bullet) or "No main events found."
\* exactly when the events extractor returned "not found"; no section is
\* empty and none shows the text of None.  In crawler.py every extracted text
\* appears in its converted form.
\* ------------------------------------------------------------------------
RECURSIVE BulletLines(_)
BulletLines(items) ==
    IF items = <<>> THEN <<>>
    ELSE <<NL, BULLET, SP>> \o Head(items) \o BulletLines(Tail(items))

C9_AssembledBlock ==
    Returned =>
        LET Shown(t) == IF call.variant = "main" THEN cc_convert(t) ELSE t
            label == IF call.episode_text = None THEN NONE_TEXT ELSE call.episode_text.val
            summary_part ==
                IF call.summary = None THEN NO_SUMMARY ELSE Shown(call.summary.val)
            events_part ==
                IF call.main_events = None THEN NO_EVENTS
                ELSE BulletLines([k \in 1..Len(call.main_events.val) |->
                                     Shown(call.main_events.val[k])])
        IN /\ call.result = Flatten(<< Shown(label), <<NL>>, Shown(call.first_text), <<NL>>,
                                       SUMMARY_LABEL, <<NL>>, summary_part, <<NL>>,
                                       EVENTS_LABEL, <<NL>>, events_part >>)
           /\ ~IsBlank(summary_part) /\ summary_part # NONE_TEXT
           /\ ~IsBlank(events_part) /\ events_part # NONE_TEXT
           /\ (summary_part = NO_SUMMARY) <=> (call.summary = None)
           /\ (events_part = NO_EVENTS) <=> (call.main_events = None)

\* crawler.py assembled a page without summary but with events, and a
\* simplified character of an event was converted
C9_Witness ==
    /\ Returned
    /\ call.variant = "main"
    /\ call.summary = None
    /\ call.main_events # None
    /\ \E k \in 1..Len(call.main_events.val) :
          \E i \in 1..Len(call.main_events.val[k]) : call.main_events.val[k][i] = "s"
    /\ \E i \in 1..Len(call.result) : call.result[i] = "t"

\* ------------------------------------------------------------------------
\* C10: documents are produced batch by batch.  The k-th document created is
\* the document of batch k; at most one document is open at any time; a
\* document is built only when every URL of its batch has been fetched, and
\* holds the rendered records of exactly those URLs in order; no URL of a
\* later batch is fetched, and no later document created, before it is built;
\* the URLs are fetched once each, in list order.
\* ------------------------------------------------------------------------
RECURSIVE RenderAll(_)
RenderAll(blocks) ==
    IF blocks = <<>> THEN <<>>
    ELSE build_episode_story(Head(blocks)) \o RenderAll(Tail(blocks))

C10_BatchByBatch ==
    /\ IsPrefix(fetched, urls)
    /\ Completed => fetched = urls
    /\ Cardinality({k \in 1..Len(docs) : docs[k].state = "open"}) <= 1
    /\ Len(docs) = Len(batches)
    /\ \A k \in 1..Len(docs) :
          LET first == (k - 1) * BATCH_SIZE + 1
              last == Min(k * BATCH_SIZE, Len(urls))
          IN /\ docs[k].part = k
             /\ first <= Len(urls)
             /\ k < Len(docs) => docs[k].state = "built"
             /\ docs[k].state = "open" => Len(fetched) \in (first - 1)..last
             /\ docs[k].state = "built" =>
                   /\ Len(fetched) >= last
                   /\ docs[k].story = RenderAll(SubSeq(records, first, last))
                   /\ docs[k].story # <<>>
    /\ \A k \in 1..Len(docs) : Len(fetched) > k * BATCH_SIZE => docs[k].state = "built"
    /\ Len(fetched) <= Len(docs) * BATCH_SIZE
    /\ Completed =>
          /\ Len(docs) * BATCH_SIZE >= Len(urls)
          /\ \A k \in 1..Len(docs) : docs[k].state = "built"

\* the third document is open, the first two are built, and the run is about
\* to fetch the first URL of the third batch
C10_Witness ==
    /\ pc = "batch"
    /\ Len(docs) = 3
    /\ docs[1].state = "built" /\ docs[2].state = "built" /\ docs[3].state = "open"
    /\ Len(fetched) = 2 * BATCH_SIZE
    /\ Len(urls) > 2 * BATCH_SIZE

\* ------------------------------------------------------------------------
\* C11: the story of the block of a fetched page shows, as its paragraphs and
\* in this order, the label in the title style, the lines of the lead
\* paragraph, the summary header, the lines of the summary (or its
\* placeholder), the events header and the lines of the events (or their
\* placeholder): every line once, under its own section, also when a line
\* begins with the characters of a section header.
\* (The code takes every line that begins with those characters for a header,
\* drops it and changes section: violated.)
\* ------------------------------------------------------------------------
NonBlankLines(t) ==
    LET NotBlank(line) == ~IsBlank(line)
    IN SelectSeq(split_lines(t), NotBlank)

Shown(style, lines) == [k \in 1..Len(lines) |-> [text |-> lines[k], style |-> style]]

\* the paragraphs of a story with their styles, the indentation of bullets removed
ParagraphsOf(st) ==
    LET IsParagraph(f) == f.kind = "Paragraph"
        ps == SelectSeq(st, IsParagraph)
        INDENT == <<SP, SP, SP, SP>>
    IN [k \in 1..Len(ps) |->
           [text |-> IF startswith(ps[k].text, INDENT \o <<BULLET>>)
                     THEN SubSeq(ps[k].text, Len(INDENT) + 1, Len(ps[k].text))
                     ELSE ps[k].text,
            style |-> ps[k].style]]

C11_RenderLossless ==
    (pc = "rendered" /\ Returned) =>
        LET label == IF call.episode_text = None THEN NONE_TEXT ELSE call.episode_text.val
            summary_part ==
                IF call.summary = None THEN NO_SUMMARY ELSE call.summary.val
            events_part ==
                IF call.main_events = None THEN NO_EVENTS
                ELSE BulletLines(call.main_events.val)
        IN ParagraphsOf(story) =
              Shown("title", << cc_convert(label) >>)
              \o Shown("normal", NonBlankLines(cc_convert(call.first_text)))
              \o Shown("summary", << SUMMARY_LABEL >>)
              \o Shown("normal", NonBlankLines(cc_convert(summary_part)))
              \o Shown("summary", << EVENTS_LABEL >>)
              \o Shown("normal", NonBlankLines(cc_convert(events_part)))

\* the same statement for the blocks none of whose content lines begins with
\* the characters of a section header
NoLineLikeHeader(t) ==
    \A k \in 1..Len(split_lines(t)) :
        /\ ~startswith(split_lines(t)[k], SUMMARY_LABEL)
        /\ ~startswith(split_lines(t)[k], EVENTS_PREFIX)

C11_PlainLines ==
    (pc = "rendered" /\ Returned) =>
        LET summary_part == IF call.summary = None THEN NO_SUMMARY ELSE call.summary.val
            events_part ==
                IF call.main_events = None THEN NO_EVENTS
                ELSE BulletLines(call.main_events.val)
        IN (/\ NoLineLikeHeader(call.first_text)
            /\ NoLineLikeHeader(summary_part)
            /\ NoLineLikeHeader(events_part))
              => C11_RenderLossless

====
